---- MODULE Spec2Model ----
(***************************************************************************)
(* Model of worker/src/worker.py: VideoGenerationWorker.                   *)
(*                                                                         *)
(* One worker process runs listen_for_jobs: it pops entries of the Redis   *)
(* list, parses them and runs generate_video synchronously.  The Redis     *)
(* job records, the scratch script files, the per-job scratch output       *)
(* directories /tmp/manim_media_<id> and the final files                   *)
(* /app/videos/<id>.mp4 are the shared state.  The renderer (manim), the   *)
(* Redis server and the file system are the environment: every call the    *)
(* code wraps in try/except may raise, and the renderer may time out,      *)
(* exit non-zero, or exit 0 leaving any set of files.                      *)
(*                                                                         *)
(* Spec is that worker.  SpecTwoWorkers is two such workers on one queue   *)
(* and one host, SpecUpdate one call of update_job_status on any stored    *)
(* record, and SpecValidate validate_and_fix_code on scripts of a few      *)
(* lines, applied once and again to its result.                            *)
(***************************************************************************)
EXTENDS Integers, Sequences, FiniteSets, TLC

\* ------------------------------------------------------------ bounds
\* Longest initial queue.
MaxQueue == 2
\* Most environment faults (Redis errors, file-system errors) in a behaviour.
MaxFaults == 1
\* Two workers: how many times the processor goes from one to the other.
MaxSwitches == 1
\* Most lines of a script given to validate_and_fix_code.
MaxLines == 2

\* ------------------------------------------------------------ values
None == "None"
JobIds == {"a", "b"}
\* Sizes of the .mp4 files the renderer may leave: 0 is an empty file.
FileSizes == {0, 1}
\* temp_file_path = None; the scratch script files are numbered from 1.
NoPath == 0

\* Queue payloads, by what json.loads and the .get calls make of them.
\*   json = "invalid": not JSON;  "scalar": JSON but not an object;
\*   "object": an object, id = None when the key is absent or falsy;
\*   data = "absent" (key missing), "null" (present, not an object), "dict";
\*   manimCode = the script text of a dict ("" when empty).
Payload(json, id, data, code) ==
    [json |-> json, id |-> id, data |-> data, manimCode |-> code]

Entries ==
    { Payload("invalid", None, None, None),
      Payload("scalar", None, None, None),
      Payload("object", None, "dict", "scene") }
    \cup { Payload("object", i, "absent", None) : i \in JobIds }
    \cup { Payload("object", i, "null", None) : i \in JobIds }
    \cup { Payload("object", i, "dict", c) : i \in JobIds, c \in {"", "scene"} }

\* The exception messages of generate_video.
NoCode == "No Manim code provided"
NoVideo == "No video file found in output directory"
EmptyVideo == "Video file is empty or corrupted"
ManimFailed == "Manim failed with return code 1"
OSErr == "OSError"
TimeoutExpired == "TimeoutExpired"
TimeoutMsg == <<"Video generation timed out after 5 minutes">>
FailedMsg(e) == <<"Video generation failed: ", e>>
VideoPath(id) == <<"/videos/", id, ".mp4">>
\* Line 160: output_path = self.videos_dir / f"{job_id}.mp4".
OutputPath(id) == <<"/app/videos/", id, ".mp4">>

\* Variant of TempMediaDir: one scratch directory for every job.
TempMediaDir_Shared(id) == <<"/tmp/manim_media_", "shared">>

\* Line 163: temp_media_dir = f"/tmp/manim_media_{job_id}".

TempMediaDir(id) == <<"/tmp/manim_media_", id>>

VARIABLES
    queue,          \* the Redis list "bull:video generation:waiting"
    store,          \* Redis keys job:<id> that exist, each with its decoded record
    scripts,        \* the scratch script files that exist (by number)
    mediaDirs,      \* the directories under /tmp that exist (by path), each with its .mp4 files
    videos,         \* the files under /app/videos that exist (by path), each with its size
    pc,             \* the worker's position
    job_data,       \* listen_for_jobs: the popped payload
    job_id,         \* generate_video: job_id
    manim_code,     \* generate_video: manim_code
    temp_file_path, \* generate_video: temp_file_path
    result,         \* generate_video: result (of subprocess.run)
    exc,            \* generate_video: the exception being handled
    clock,          \* time.time(), in ticks
    faults,         \* environment faults so far
    input,          \* history: the queue as it was at the start
    dispatched,     \* history: the payloads handed to generate_video
    terminals,      \* history: the terminal statuses written per job id
    run,            \* history: what the current or last generate_video did
    other,          \* the second worker process while the first runs: its own
                    \* pc, job_data, locals and run
    probe,          \* a single call under study: its arguments and results
    switches        \* how many times the processor went from one worker to the other

vars == <<queue, store, scripts, mediaDirs, videos, pc, job_data, job_id,
          manim_code, temp_file_path, result, exc, clock, faults, input,
          dispatched, terminals, run, other, probe, switches>>

\* What the steps of one worker leave alone.
aside == <<other, probe, switches>>

fsVars == <<scripts, mediaDirs, videos>>
localVars == <<job_id, manim_code, temp_file_path, result, exc>>

\* ------------------------------------------------------------ helpers
RECURSIVE SeqsUpTo(_, _)
SeqsUpTo(S, n) ==
    IF n = 0 THEN {<<>>}
    ELSE LET shorter == SeqsUpTo(S, n - 1)
         IN  shorter \cup { Append(s, e) : s \in {t \in shorter : Len(t) = n - 1}, e \in S }

\* A dict (or a directory listing) with key k set to v, and with k removed.
Put(f, k, v) == [x \in (DOMAIN f) \cup {k} |-> IF x = k THEN v ELSE f[x]]
Drop(f, k) == [x \in (DOMAIN f) \ {k} |-> f[x]]
EmptyDict == [x \in {} |-> x]

NoPayload == Payload(None, None, None, None)

\* What one call of generate_video did (reset when the next one starts);
\* called is the last progress it passed to update_job_status and stored the
\* last progress of it that reached the record (0: none yet).
NoRun ==
    [id |-> None, ended |-> FALSE, escaped |-> FALSE, spawned |-> 0,
     outcome |-> None, created |-> NoPath, cleanups |-> 0,
     terminalCalls |-> 0, terminalStored |-> FALSE, unlinkRaised |-> FALSE,
     rmtreeRaised |-> FALSE, called |-> 0, stored |-> 0]

\* The locals of generate_video outside a call of it.
NoLocals ==
    /\ job_id = None
    /\ manim_code = None
    /\ temp_file_path = NoPath
    /\ result = EmptyDict
    /\ exc = None

Init ==
    /\ queue \in SeqsUpTo(Entries, MaxQueue)
    /\ store = EmptyDict
    /\ scripts = {}
    /\ mediaDirs = EmptyDict
    /\ videos = EmptyDict
    /\ pc = "blpop"
    /\ job_data = NoPayload
    /\ NoLocals
    /\ clock = 0
    /\ faults = 0
    /\ input = queue
    /\ dispatched = <<>>
    /\ terminals = [i \in JobIds |-> {}]
    /\ run = NoRun
    /\ other = EmptyDict
    /\ probe = EmptyDict
    /\ switches = 0

\* ------------------------------------------------------------ update_job_status
\* Variant of UpdatedRecord: the stored record is not read, every call starts
\* a new one.
UpdatedRecord_Fresh(id, status, given, now) ==
    LET data == [jobId |-> id, status |-> "unknown", createdAt |-> now]
        keys == (DOMAIN data) \cup {"updatedAt"} \cup (DOMAIN given)
    IN  [k \in keys |-> IF k = "status" THEN status
                        ELSE IF k = "updatedAt" THEN now
                        ELSE IF k \in DOMAIN given THEN given[k]
                        ELSE data[k]]

\* The record update_job_status builds (lines 37-54) from the stored one, or
\* from a new one when the key does not exist: status and updatedAt
\* overwritten, the optional arguments that were given merged in.  given maps
\* the record fields passed (progress, error, videoPath) to their values; now
\* is what time.time() returns.
UpdatedRecord(id, status, given, now) ==
    LET data == IF id \in DOMAIN store
                THEN store[id]
                ELSE [jobId |-> id, status |-> "unknown", createdAt |-> now]
        keys == (DOMAIN data) \cup {"updatedAt"} \cup (DOMAIN given)
    IN  [k \in keys |-> IF k = "status" THEN status
                        ELSE IF k = "updatedAt" THEN now
                        ELSE IF k \in DOMAIN given THEN given[k]
                        ELSE data[k]]

Terminal == {"completed", "failed"}

\* update_job_status(job_id, status, ...): GET, merge, SETEX.  A Redis error
\* in either call is caught (line 59), printed, and the record stays as it was.
\* Time has passed since the call before.  r is the run history to carry on
\* (run, or run with what the calling step adds to it).
update_job_status(id, status, given, r) ==
    LET passed == IF "progress" \in DOMAIN given
                  THEN [r EXCEPT !.called = given.progress]
                  ELSE r
        written == IF "progress" \in DOMAIN given
                   THEN [passed EXCEPT !.stored = given.progress]
                   ELSE passed
    IN  /\ clock' = clock + 1
        /\ \/ /\ store' = Put(store, id, UpdatedRecord(id, status, given, clock'))
              /\ terminals' = IF status \in Terminal
                              THEN [terminals EXCEPT ![id] = @ \cup {status}]
                              ELSE terminals
              /\ run' = IF status \in Terminal
                        THEN [written EXCEPT !.terminalCalls = @ + 1,
                                             !.terminalStored = TRUE]
                        ELSE written
              /\ faults' = faults
           \/ /\ faults < MaxFaults
              /\ faults' = faults + 1
              /\ run' = IF status \in Terminal
                        THEN [passed EXCEPT !.terminalCalls = @ + 1]
                        ELSE passed
              /\ UNCHANGED <<store, terminals>>

\* ------------------------------------------------------------ listen_for_jobs
\* Variant of BlpopEntry: the head of the list is read and left in the list.
BlpopEntry_Peek ==
    /\ pc = "blpop"
    /\ queue # <<>>
    /\ job_data' = Head(queue)
    /\ pc' = "parse"
    /\ UNCHANGED <<queue, store, fsVars, localVars, faults, clock, input, aside,
                   dispatched, terminals, run>>

\* BLPOP takes the head of the list and returns it, in one step of the Redis
\* server (lines 258-262).

BlpopEntry ==
    /\ pc = "blpop"
    /\ queue # <<>>
    /\ job_data' = Head(queue)
    /\ queue' = Tail(queue)
    /\ pc' = "parse"
    /\ UNCHANGED <<store, fsVars, localVars, faults, clock, input, aside, dispatched, terminals, run>>

\* BLPOP returns None after its 5 s timeout, or raises redis TimeoutError
\* (line 283): the loop goes round.
BlpopEmpty ==
    /\ pc = "blpop"
    /\ queue = <<>>
    /\ UNCHANGED vars

\* Variant of BlpopError without the sleep of line 292.
BlpopError_NoSleep ==
    /\ pc = "blpop"
    /\ faults < MaxFaults
    /\ faults' = faults + 1
    /\ pc' = "blpop"
    /\ UNCHANGED <<queue, store, fsVars, job_data, localVars, clock, input, aside, dispatched, terminals, run>>

\* BLPOP raises another exception (connection lost): lines 289-292.
BlpopError ==
    /\ pc = "blpop"
    /\ faults < MaxFaults
    /\ faults' = faults + 1
    /\ pc' = "sleep"
    /\ UNCHANGED <<queue, store, fsVars, job_data, localVars, clock, input, aside, dispatched, terminals, run>>

\* time.sleep(5) is over (line 292).
Sleep ==
    /\ pc = "sleep"
    /\ pc' = "blpop"
    /\ UNCHANGED <<queue, store, fsVars, job_data, localVars, faults, clock, input, aside, dispatched, terminals, run>>

\* KeyboardInterrupt while waiting in BLPOP: lines 286-288.
Interrupt ==
    /\ pc = "blpop"
    /\ pc' = "stopped"
    /\ UNCHANGED <<queue, store, fsVars, job_data, localVars, faults, clock, input, aside, dispatched, terminals, run>>

\* Lines 264-281 up to the call of generate_video.  json.loads raises on a
\* payload that is not JSON (line 278); job_info.get raises on JSON that is
\* not an object (line 280); an object without id is skipped (line 276).
\* Variant of Dispatchable without the test of line 268.
Dispatchable_NoIdCheck(e) == e.json = "object"

Dispatchable(e) == e.json = "object" /\ e.id # None

\* Variant of Parse that does not wait for generate_video to return.
Parse_Async ==
    /\ pc = "parse"
    /\ pc' = "blpop"
    /\ IF Dispatchable(job_data)
       THEN /\ dispatched' = Append(dispatched, job_data)
            /\ run' = [NoRun EXCEPT !.id = job_data.id]
       ELSE UNCHANGED <<dispatched, run>>
    /\ UNCHANGED <<queue, store, fsVars, job_data, localVars, faults, clock, input, aside, terminals>>

Parse ==
    /\ pc = "parse"
    /\ IF Dispatchable(job_data)
       THEN /\ pc' = "generate_video"
            /\ dispatched' = Append(dispatched, job_data)
            /\ run' = [NoRun EXCEPT !.id = job_data.id]
       ELSE /\ pc' = "blpop"
            /\ UNCHANGED <<dispatched, run>>
    /\ UNCHANGED <<queue, store, fsVars, job_data, localVars, faults, clock, input, aside, terminals>>

\* ------------------------------------------------------------ generate_video
\* enhanced_job['data'] = job_info.get('data', {}) and then
\* job_data['data'].get('manimCode', '') (line 134).
ManimCodeOf(e) == IF e.data = "dict" THEN e.manimCode ELSE ""

\* Lines 133-137, before the try.  A data value that is not an object has no
\* .get: the AttributeError leaves generate_video and is caught at line 280.
Enter ==
    /\ pc = "generate_video"
    /\ IF job_data.data = "null"
       THEN /\ pc' = "blpop"
            /\ run' = [run EXCEPT !.escaped = TRUE, !.ended = TRUE]
            /\ UNCHANGED localVars
       ELSE /\ job_id' = job_data.id
            /\ manim_code' = ManimCodeOf(job_data)
            /\ temp_file_path' = NoPath
            /\ pc' = "update10"
            /\ UNCHANGED <<result, exc, run>>
    /\ UNCHANGED <<queue, store, fsVars, job_data, faults, clock, input, aside, dispatched, terminals>>

\* Variant of NoScriptGiven: the check of line 143 left out.
NoScriptGiven_Never(code) == FALSE

\* Line 143: not manim_code.

NoScriptGiven(code) == code = ""

\* Lines 140-147: progress 10, then the check of the script; the normalizer
\* never raises (line 100).
Update10 ==
    /\ pc = "update10"
    /\ update_job_status(job_id, "processing", [progress |-> 10],
                         IF NoScriptGiven(manim_code)
                         THEN [run EXCEPT !.outcome = "noscript"] ELSE run)
    /\ IF NoScriptGiven(manim_code)
       THEN exc' = NoCode /\ pc' = "except"
       ELSE exc' = exc /\ pc' = "update25"
    /\ UNCHANGED <<queue, fsVars, job_data, job_id, manim_code, temp_file_path, result, input, aside, dispatched>>

\* Line 149.
Update25 ==
    /\ pc = "update25"
    /\ update_job_status(job_id, "processing", [progress |-> 25], run)
    /\ pc' = "tempfile"
    /\ UNCHANGED <<queue, fsVars, job_data, localVars, input, aside, dispatched>>

\* Lines 152-154: NamedTemporaryFile(delete=False) creates a file under a
\* name not in use, write() fills it, and only then is temp_file_path set.
\* Creating the file can raise (nothing is created), write() can raise (an
\* OSError, or a UnicodeEncodeError on text the encoding cannot take: the file
\* exists and temp_file_path is still None), and the close at the end of the
\* with block can raise (temp_file_path is set by then).
FreshName == CHOOSE n \in 1..(Cardinality(scripts) + 1) : n \notin scripts

TempFile ==
    /\ pc = "tempfile"
    /\ \/ /\ scripts' = scripts \cup {FreshName}
          /\ temp_file_path' = FreshName
          /\ run' = [run EXCEPT !.created = FreshName]
          /\ pc' = "update40"
          /\ UNCHANGED <<exc, faults>>
       \/ /\ faults < MaxFaults
          /\ faults' = faults + 1
          /\ exc' = OSErr
          /\ pc' = "except"
          /\ \/ UNCHANGED <<scripts, run, temp_file_path>>
             \/ /\ scripts' = scripts \cup {FreshName}
                /\ run' = [run EXCEPT !.created = FreshName]
                /\ temp_file_path' \in {NoPath, FreshName}
    /\ UNCHANGED <<queue, store, mediaDirs, videos, job_data, job_id, manim_code,
                   result, clock, input, aside, dispatched, terminals>>

\* Variant of Update40: a progress below the one before.
Update40_Low ==
    /\ pc = "update40"
    /\ update_job_status(job_id, "processing", [progress |-> 5], run)
    /\ pc' = "makedirs"
    /\ UNCHANGED <<queue, fsVars, job_data, localVars, input, aside, dispatched>>

\* Line 157.

Update40 ==
    /\ pc = "update40"
    /\ update_job_status(job_id, "processing", [progress |-> 40], run)
    /\ pc' = "makedirs"
    /\ UNCHANGED <<queue, fsVars, job_data, localVars, input, aside, dispatched>>

\* Lines 160-164: os.makedirs(temp_media_dir, exist_ok=True) keeps a directory
\* that is already there, with what it holds.
Makedirs ==
    /\ pc = "makedirs"
    /\ \/ /\ mediaDirs' = IF TempMediaDir(job_id) \in DOMAIN mediaDirs
                          THEN mediaDirs
                          ELSE Put(mediaDirs, TempMediaDir(job_id), {})
          /\ pc' = "update60"
          /\ UNCHANGED <<exc, faults>>
       \/ /\ faults < MaxFaults
          /\ faults' = faults + 1
          /\ exc' = OSErr
          /\ pc' = "except"
          /\ UNCHANGED mediaDirs
    /\ UNCHANGED <<queue, store, scripts, videos, job_data, job_id, manim_code,
                   temp_file_path, result, clock, input, aside, dispatched, terminals, run>>

\* Line 180.
Update60 ==
    /\ pc = "update60"
    /\ update_job_status(job_id, "processing", [progress |-> 60], run)
    /\ pc' = "subprocess"
    /\ UNCHANGED <<queue, fsVars, job_data, localVars, input, aside, dispatched>>

\* Line 200: Path(temp_media_dir).rglob("*.mp4"), nothing when the directory
\* is not there.
MediaFiles(dir) == IF dir \in DOMAIN mediaDirs THEN mediaDirs[dir] ELSE {}

\* Lines 183-195: subprocess.run of manim with timeout=300.  The renderer
\* leaves any set of .mp4 files under the media directory and exits with a
\* return code, or is killed at the timeout (TimeoutExpired); or the process
\* cannot be started at all (OSError).
Subprocess ==
    /\ pc = "subprocess"
    /\ \/ /\ \E written \in SUBSET FileSizes :
                mediaDirs' = Put(mediaDirs, TempMediaDir(job_id),
                                 MediaFiles(TempMediaDir(job_id)) \cup written)
          /\ \/ /\ \E rc \in {0, 1} : result' = [returncode |-> rc]
                /\ pc' = "update80"
                /\ run' = [run EXCEPT !.spawned = @ + 1]
                /\ exc' = exc
             \/ /\ exc' = TimeoutExpired
                /\ pc' = "except_timeout"
                /\ run' = [run EXCEPT !.spawned = @ + 1, !.outcome = "timeout"]
                /\ result' = result
          /\ faults' = faults
       \/ /\ faults < MaxFaults
          /\ faults' = faults + 1
          /\ exc' = OSErr
          /\ pc' = "except"
          /\ UNCHANGED <<mediaDirs, result, run>>
    /\ UNCHANGED <<queue, store, scripts, videos, job_data, job_id, manim_code,
                   temp_file_path, clock, input, aside, dispatched, terminals>>

\* Line 197.
Update80 ==
    /\ pc = "update80"
    /\ update_job_status(job_id, "processing", [progress |-> 80], run)
    /\ pc' = "discover"
    /\ UNCHANGED <<queue, fsVars, job_data, localVars, input, aside, dispatched>>

\* Variant of RendererOk: the return code is not looked at.
RendererOk_Any(res) == TRUE

\* Line 199: result.returncode == 0.

RendererOk(res) == res.returncode = 0

\* Variant of SizeOk: the size check of line 210 left out.
SizeOk_Any(size) == TRUE

\* Line 210: output_path.exists() and output_path.stat().st_size > 0, for
\* the file copy2 has just written.

SizeOk(size) == size > 0

\* Lines 199-223 up to the final status: rglob("*.mp4"), copy2 of
\* video_files[0] (which file comes first is the directory's order) onto
\* /app/videos/<id>.mp4, and the size check of the copy.  copy2 can raise
\* OSError, before it opens the destination or after it has truncated it.
Discover ==
    /\ pc = "discover"
    /\ IF RendererOk(result)
       THEN IF MediaFiles(TempMediaDir(job_id)) # {}
            THEN \/ \E source_video \in MediaFiles(TempMediaDir(job_id)) :
                       /\ videos' = Put(videos, OutputPath(job_id), source_video)
                       /\ IF SizeOk(videos'[OutputPath(job_id)])
                          THEN /\ pc' = "update100"
                               /\ exc' = exc
                               /\ run' = [run EXCEPT !.outcome = "copied"]
                          ELSE /\ pc' = "except"
                               /\ exc' = EmptyVideo
                               /\ run' = [run EXCEPT !.outcome = "empty"]
                       /\ faults' = faults
                 \/ /\ faults < MaxFaults
                    /\ faults' = faults + 1
                    /\ videos' \in {videos, Put(videos, OutputPath(job_id), 0)}
                    /\ pc' = "except"
                    /\ exc' = OSErr
                    /\ run' = [run EXCEPT !.outcome = "copyfailed"]
            ELSE /\ pc' = "except"
                 /\ exc' = NoVideo
                 /\ run' = [run EXCEPT !.outcome = "noartifact"]
                 /\ UNCHANGED <<videos, faults>>
       ELSE /\ pc' = "except"
            /\ exc' = ManimFailed
            /\ run' = [run EXCEPT !.outcome = "nonzero"]
            /\ UNCHANGED <<videos, faults>>
    /\ UNCHANGED <<queue, store, scripts, mediaDirs, job_data, job_id, manim_code,
                   temp_file_path, result, clock, input, aside, dispatched, terminals>>

\* Lines 211-217.
Update100 ==
    /\ pc = "update100"
    /\ update_job_status(job_id, "completed",
                         [progress |-> 100, videoPath |-> VideoPath(job_id)], run)
    /\ pc' = "finally"
    /\ UNCHANGED <<queue, fsVars, job_data, localVars, input, aside, dispatched>>

\* Lines 225-228: except subprocess.TimeoutExpired.
ExceptTimeout ==
    /\ pc = "except_timeout"
    /\ update_job_status(job_id, "failed", [error |-> TimeoutMsg], run)
    /\ pc' = "finally"
    /\ UNCHANGED <<queue, fsVars, job_data, localVars, input, aside, dispatched>>

\* Lines 230-234: except Exception.
Except ==
    /\ pc = "except"
    /\ update_job_status(job_id, "failed", [error |-> FailedMsg(exc)], run)
    /\ pc' = "finally"
    /\ UNCHANGED <<queue, fsVars, job_data, localVars, input, aside, dispatched>>

\* Variant of AfterUnlink: the unlink left out.
AfterUnlink_Skipped == scripts

\* Lines 239-240: os.unlink(temp_file_path), when it does not raise.

AfterUnlink ==
    IF temp_file_path # NoPath /\ temp_file_path \in scripts
    THEN scripts \ {temp_file_path}
    ELSE scripts

\* Variant of AfterRmtree: the rmtree left out.
AfterRmtree_Skipped == mediaDirs

\* Lines 244-246: shutil.rmtree(temp_media_dir), when it does not raise.

AfterRmtree ==
    IF TempMediaDir(job_id) \in DOMAIN mediaDirs
    THEN Drop(mediaDirs, TempMediaDir(job_id))
    ELSE mediaDirs

\* Lines 236-249: the finally block, one try around both deletions.  unlink
\* runs only when temp_file_path is set and the file exists; an exception
\* from unlink skips rmtree (line 248).  Then generate_video returns and its
\* locals are gone.
Finally ==
    /\ pc = "finally"
    /\ LET hasFile == temp_file_path # NoPath /\ temp_file_path \in scripts
           hasDir == TempMediaDir(job_id) \in DOMAIN mediaDirs
       IN  \/ /\ scripts' = AfterUnlink
              /\ \/ /\ mediaDirs' = AfterRmtree
                    /\ run' = [run EXCEPT !.ended = TRUE, !.cleanups = @ + 1]
                    /\ faults' = faults
                 \/ /\ hasDir
                    /\ faults < MaxFaults
                    /\ faults' = faults + 1
                    /\ mediaDirs' = mediaDirs
                    /\ run' = [run EXCEPT !.ended = TRUE, !.cleanups = @ + 1,
                                          !.rmtreeRaised = TRUE]
           \/ /\ hasFile
              /\ faults < MaxFaults
              /\ faults' = faults + 1
              /\ run' = [run EXCEPT !.ended = TRUE, !.cleanups = @ + 1,
                                    !.unlinkRaised = TRUE]
              /\ UNCHANGED <<scripts, mediaDirs>>
    /\ pc' = "blpop"
    /\ job_id' = None
    /\ manim_code' = None
    /\ temp_file_path' = NoPath
    /\ result' = EmptyDict
    /\ exc' = None
    /\ UNCHANGED <<queue, store, videos, job_data, clock, input, aside, dispatched, terminals>>

\* ------------------------------------------------------------ specification
Next ==
    \/ BlpopEntry
    \/ BlpopEmpty
    \/ BlpopError
    \/ Sleep
    \/ Interrupt
    \/ Parse
    \/ Enter
    \/ Update10
    \/ Update25
    \/ TempFile
    \/ Update40
    \/ Makedirs
    \/ Update60
    \/ Subprocess
    \/ Update80
    \/ Discover
    \/ Update100
    \/ ExceptTimeout
    \/ Except
    \/ Finally

Spec == Init /\ [][Next]_vars

\* ------------------------------------------------------------ two workers
\* Two worker processes (lines 310-313, started twice) on the same Redis and
\* the same host.  The variables pc, job_data, the locals and run are those
\* of the worker that has the processor; other holds those of the worker that
\* waits.  Switch hands the processor over, at any point of the code.
Worker ==
    [pc |-> pc, job_data |-> job_data, job_id |-> job_id,
     manim_code |-> manim_code, temp_file_path |-> temp_file_path,
     result |-> result, exc |-> exc, run |-> run]

Switch ==
    /\ switches < MaxSwitches
    /\ switches' = switches + 1
    /\ pc' = other.pc
    /\ job_data' = other.job_data
    /\ job_id' = other.job_id
    /\ manim_code' = other.manim_code
    /\ temp_file_path' = other.temp_file_path
    /\ result' = other.result
    /\ exc' = other.exc
    /\ run' = other.run
    /\ other' = Worker
    /\ UNCHANGED <<queue, store, fsVars, clock, faults, input, dispatched,
                   terminals, probe>>

\* The jobs the two workers share: scripts that reach the renderer.
SceneEntries == { Payload("object", i, "dict", "scene") : i \in JobIds }

InitTwoWorkers ==
    /\ queue \in SeqsUpTo(SceneEntries, MaxQueue)
    /\ store = EmptyDict
    /\ scripts = {}
    /\ mediaDirs = EmptyDict
    /\ videos = EmptyDict
    /\ pc = "blpop"
    /\ job_data = NoPayload
    /\ NoLocals
    /\ clock = 0
    /\ faults = 0
    /\ input = queue
    /\ dispatched = <<>>
    /\ terminals = [i \in JobIds |-> {}]
    /\ run = NoRun
    /\ other = Worker
    /\ probe = EmptyDict
    /\ switches = 0

\* The steps of the worker that has the processor, in an environment that
\* raises no error (the errors are those of Spec), or a switch.
NextTwoWorkers ==
    \/ Next /\ faults' = faults
    \/ Switch

SpecTwoWorkers == InitTwoWorkers /\ [][NextTwoWorkers]_vars

\* ------------------------------------------------------------ properties
\* The run of generate_video that has returned, and the job it was for.
Returned == run.id # None /\ run.ended /\ ~run.escaped
HasRecord == run.id \in DOMAIN store
Record == store[run.id]
Field(rec, k) == IF k \in DOMAIN rec THEN rec[k] ELSE None
ScriptGone == run.created = NoPath \/ run.created \notin scripts
DirGone == TempMediaDir(run.id) \notin DOMAIN mediaDirs
\* The payload the current or last run was called with.
Job == dispatched[Len(dispatched)]
\* The payloads popped so far.
Popped == SubSeq(input, 1, Len(input) - Len(queue))

\* C1: for every job id, at most one terminal status (completed or failed)
\* is ever written to its record, over any sequence of popped entries.
C1_OneTerminalStatusPerJob ==
    \A i \in JobIds : Cardinality(terminals[i]) <= 1

\* C2 as stated: after a run in which the renderer exited 0 and a non-empty
\* file was found and copied, /app/videos/<id>.mp4 exists with size > 0 and
\* the record has status completed, progress 100 and a non-empty videoPath.
C2_SuccessPublished ==
    (Returned /\ run.outcome = "copied") =>
        /\ OutputPath(run.id) \in DOMAIN videos /\ videos[OutputPath(run.id)] > 0
        /\ HasRecord
        /\ Record.status = "completed"
        /\ Field(Record, "progress") = 100
        /\ Field(Record, "videoPath") = VideoPath(run.id)

\* C2 amended: the final file is there with size > 0 in every such run; the
\* record shows completed, 100 and the videoPath whenever the write of the
\* completed status was not lost to a Redis error.
C2_SuccessPublishedIfStored ==
    (Returned /\ run.outcome = "copied") =>
        /\ OutputPath(run.id) \in DOMAIN videos /\ videos[OutputPath(run.id)] > 0
        /\ run.terminalStored =>
              /\ HasRecord
              /\ Record.status = "completed"
              /\ Field(Record, "progress") = 100
              /\ Field(Record, "videoPath") = VideoPath(run.id)

C2_Witness ==
    /\ Returned /\ run.outcome = "copied" /\ run.terminalStored
    /\ Record.status = "completed"

\* C3 as stated: after a run in which the renderer timed out, the record is
\* failed with the timeout error, and the scratch script file and the scratch
\* output directory are both gone.
C3_TimeoutFailsAndCleans ==
    (Returned /\ run.outcome = "timeout") =>
        /\ HasRecord
        /\ Record.status = "failed"
        /\ Field(Record, "error") = TimeoutMsg
        /\ ScriptGone
        /\ DirGone

\* C3 amended: the record is failed with the timeout error whenever the write
\* of the failed status was not lost to a Redis error; the script file is
\* gone unless os.unlink raised, and the directory is gone unless os.unlink or
\* shutil.rmtree raised.
C3_TimeoutFailsAndCleansUnlessFault ==
    (Returned /\ run.outcome = "timeout") =>
        /\ run.terminalStored =>
              /\ HasRecord
              /\ Record.status = "failed"
              /\ Field(Record, "error") = TimeoutMsg
        /\ ~run.unlinkRaised => ScriptGone
        /\ (~run.unlinkRaised /\ ~run.rmtreeRaised) => DirGone

C3_Witness ==
    /\ Returned /\ run.outcome = "timeout" /\ run.terminalStored
    /\ run.created # NoPath /\ ScriptGone /\ DirGone

\* C4: no exception leaves generate_video; every run that has returned did so
\* through its own handlers.
C4_NoExceptionEscapes ==
    (run.id # None /\ run.ended) => ~run.escaped

\* C5: after every run that entered the try block, cleanup has run once and
\* the scratch script file created by the run and the scratch output
\* directory of the job are both gone.
C5_ScratchAlwaysRemoved ==
    Returned => (run.cleanups = 1 /\ ScriptGone /\ DirGone)

\* C6: the iteration for a payload that is not JSON, or has no id, leaves the
\* store as it was, does not call generate_video, and returns to the pop.
NotJson(e) == e.json = "invalid"
NoId(e) == e.json # "invalid" /\ e.id = None

C6_SkippedEntryWritesNothing ==
    [][ /\ pc = "blpop" => store' = store
        /\ (pc = "parse" /\ (NotJson(job_data) \/ NoId(job_data))) =>
              /\ store' = store
              /\ dispatched' = dispatched
              /\ pc' = "blpop" ]_vars

C6_Witness ==
    /\ pc = "blpop"
    /\ Len(Popped) > Len(dispatched)
    /\ NotJson(job_data) \/ NoId(job_data)

\* C7 as stated: after a run for an entry with an id and no script text, the
\* record is failed with the no-script error and the renderer was not spawned.
NoScriptText(e) == e.data = "absent" \/ (e.data = "dict" /\ e.manimCode = "")

C7_NoScriptFails ==
    (Returned /\ NoScriptText(Job)) =>
        /\ HasRecord
        /\ Record.status = "failed"
        /\ Field(Record, "error") = FailedMsg(NoCode)
        /\ run.spawned = 0

\* C7 amended: the renderer is never spawned, and the record is failed with
\* the no-script error whenever the write of the failed status was not lost
\* to a Redis error.
C7_NoScriptFailsIfStored ==
    (Returned /\ NoScriptText(Job)) =>
        /\ run.spawned = 0
        /\ run.terminalStored =>
              /\ HasRecord
              /\ Record.status = "failed"
              /\ Field(Record, "error") = FailedMsg(NoCode)

C7_Witness ==
    /\ Returned /\ NoScriptText(Job) /\ run.terminalStored
    /\ Record.status = "failed"

\* C8 as stated: after a run in which the renderer exited 0 and left no .mp4,
\* the record is failed with the no-video error, the renderer ran once, and
\* the scratch script file and directory are gone.
C8_NoArtifactFailsAndCleans ==
    (Returned /\ run.outcome = "noartifact") =>
        /\ HasRecord
        /\ Record.status = "failed"
        /\ Field(Record, "error") = FailedMsg(NoVideo)
        /\ run.spawned = 1
        /\ ScriptGone
        /\ DirGone

\* C8 amended: the renderer ran once; the record is failed with the no-video
\* error whenever the write of the failed status was not lost to a Redis
\* error; the script file is gone unless os.unlink raised, and the directory
\* is gone unless os.unlink or shutil.rmtree raised.
C8_NoArtifactFailsAndCleansUnlessFault ==
    (Returned /\ run.outcome = "noartifact") =>
        /\ run.spawned = 1
        /\ run.terminalStored =>
              /\ HasRecord
              /\ Record.status = "failed"
              /\ Field(Record, "error") = FailedMsg(NoVideo)
        /\ ~run.unlinkRaised => ScriptGone
        /\ (~run.unlinkRaised /\ ~run.rmtreeRaised) => DirGone

C8_Witness ==
    /\ Returned /\ run.outcome = "noartifact" /\ run.terminalStored
    /\ run.created # NoPath /\ ScriptGone /\ DirGone

\* The three infrastructure errors of the loop, as steps.
PopFails == pc = "blpop" /\ faults' = faults + 1
DecodeFails == pc = "parse" /\ NotJson(job_data)
RunEscapes == pc = "generate_video" /\ run'.escaped

InFlight == run.id # None /\ ~run.ended
HasId(e) == e.json = "object" /\ e.id # None
Parsed == IF pc = "parse" THEN SubSeq(Popped, 1, Len(Popped) - 1) ELSE Popped

FENCE == "<fence>"
PY == "python"
IMPORT == "from manim import *"
NL == "\n"
SP == " "
CLASS == "class"
GEN == "Generated"
SCENE == "Scene"
LP == "("
RP == ")"
COLON == ":"
Whitespace == {SP, NL}

\* s[from..], p in s, s.find(p) (0: not found), s.startswith(p).
From(s, from) == SubSeq(s, from, Len(s))
StartsWith(s, p) == Len(s) >= Len(p) /\ SubSeq(s, 1, Len(p)) = p
Occurrences(s, p) ==
    {k \in 1..(Len(s) - Len(p) + 1) : SubSeq(s, k, k + Len(p) - 1) = p}
Contains(s, p) == Occurrences(s, p) # {}
Find(s, p) ==
    IF Contains(s, p)
    THEN CHOOSE k \in Occurrences(s, p) : \A l \in Occurrences(s, p) : k <= l
    ELSE 0

\* s.replace(old, new): every occurrence from the left, not overlapping, the
\* text put in is not searched again (old is never empty here).
RECURSIVE Replace(_, _, _)
Replace(s, old, new) ==
    IF s = <<>> THEN <<>>
    ELSE IF StartsWith(s, old)
         THEN new \o Replace(From(s, Len(old) + 1), old, new)
         ELSE <<Head(s)>> \o Replace(Tail(s), old, new)

\* s.strip().
RECURSIVE LStrip(_)
LStrip(s) == IF s # <<>> /\ Head(s) \in Whitespace THEN LStrip(Tail(s)) ELSE s
RECURSIVE RStrip(_)
RStrip(s) ==
    IF s # <<>> /\ s[Len(s)] \in Whitespace
    THEN RStrip(SubSeq(s, 1, Len(s) - 1))
    ELSE s
Strip(s) == LStrip(RStrip(s))

\* s.split(sep): the list of the parts.
RECURSIVE Split(_, _)
Split(s, sep) ==
    IF Contains(s, sep)
    THEN <<SubSeq(s, 1, Find(s, sep) - 1)>>
            \o Split(From(s, Find(s, sep) + Len(sep)), sep)
    ELSE <<s>>

ClassGeneratedScene == <<CLASS, SP, GEN, SCENE>>
\* Lines 88-96: the class appended when there is none.
DefaultScene ==
    <<NL, NL>> \o ClassGeneratedScene \o <<LP, SCENE, RP, COLON, NL,
      "    def construct(self):", NL,
      "        text = Text(\"Generated Animation\", font_size=36)", NL,
      "        text.set_color(BLUE)", NL,
      "        self.play(Write(text))", NL,
      "        self.wait(2)", NL>>

\* Lines 104-129, the template; the lines of its construct() are kept as
\* pieces, one for each run of lines up to a blank one.
get_fallback_code ==
    <<NL, IMPORT, NL, NL>> \o ClassGeneratedScene \o <<LP, SCENE, RP, COLON, NL,
      "    def construct(self):", NL,
      "        title = Text(\"AI Video Generator\", font_size=48) ...", NL,
      "        ", NL,
      "        subtitle = Text(\"Animation Generated Successfully!\", font_size=24) ...", NL,
      "        ", NL,
      "        self.play(Write(title)) ...", NL,
      "        ", NL,
      "        circle = Circle(radius=2, color=YELLOW) ...", NL,
      "        ", NL,
      "        self.play(Create(circle)) ...", NL>>

\* A manimCode that is not a string (a JSON number, list or object): it has
\* no .replace, and line 100 catches the AttributeError.
NotText == <<"not a str">>

\* Lines 80-85: the first line that starts with 'class ' and holds '(Scene)'
\* gives the name, and every 'class <name>' becomes 'class GeneratedScene'.
RenameFirstScene(code) ==
    LET lines == Split(code, <<NL>>)
        found == {i \in 1..Len(lines) :
                     /\ StartsWith(Strip(lines[i]), <<CLASS, SP>>)
                     /\ Contains(lines[i], <<LP, SCENE, RP>>)}
    IN  IF found = {} THEN code
        ELSE LET line == lines[CHOOSE i \in found : \A j \in found : i <= j]
                 class_name == Strip(Split(Split(line, <<CLASS, SP>>)[2], <<LP>>)[1])
             IN  Replace(code, <<CLASS, SP>> \o class_name, ClassGeneratedScene)

\* Lines 62-102.
validate_and_fix_code(code) ==
    IF code = NotText THEN get_fallback_code
    ELSE
    LET stripped == Strip(Replace(Replace(code, <<FENCE, PY>>, <<>>), <<FENCE>>, <<>>))
        imported == IF ~Contains(stripped, <<IMPORT>>)
                    THEN <<IMPORT, NL, NL>> \o stripped
                    ELSE stripped
        based == IF Contains(imported, <<CLASS>>) /\ ~Contains(imported, <<SCENE>>)
                 THEN Replace(imported, ClassGeneratedScene \o <<COLON>>,
                              ClassGeneratedScene \o <<LP, SCENE, RP, COLON>>)
                 ELSE imported
        named == IF ~Contains(based, <<GEN, SCENE>>) /\ Contains(based, <<CLASS>>)
                 THEN RenameFirstScene(based)
                 ELSE based
    IN  IF ~Contains(named, ClassGeneratedScene)
        THEN named \o DefaultScene
        ELSE named

\* The lines scripts are made of here.
Lines ==
    { <<"x = 1">>,
      <<SP, SP, "pass">>,
      <<>>,
      <<IMPORT>>,
      <<FENCE, PY>>,
      <<FENCE>>,
      <<"#", SP, GEN, SCENE>>,
      <<CLASS, SP, "Foo", COLON>>,
      <<CLASS, SP, "Foo", LP, SCENE, RP, COLON>>,
      <<CLASS, SP, "Foo", "Bar", LP, SCENE, RP, COLON>>,
      <<CLASS, SP, GEN, SCENE, COLON>>,
      <<CLASS, SP, GEN, SCENE, LP, SCENE, RP, COLON>>,
      <<CLASS, SP, GEN, SCENE, "Intro", LP, SCENE, RP, COLON>> }

\* '\n'.join(lines).
RECURSIVE Join(_)
Join(lines) ==
    IF lines = <<>> THEN <<>>
    ELSE IF Len(lines) = 1 THEN lines[1]
    ELSE lines[1] \o <<NL>> \o Join(Tail(lines))

Scripts == { Join(ls) : ls \in SeqsUpTo(Lines, MaxLines) } \cup {NotText}

InitValidate ==
    /\ queue = <<>>
    /\ store = EmptyDict
    /\ scripts = {}
    /\ mediaDirs = EmptyDict
    /\ videos = EmptyDict
    /\ pc = "validate"
    /\ job_data = NoPayload
    /\ NoLocals
    /\ clock = 0
    /\ faults = 0
    /\ input = queue
    /\ dispatched = <<>>
    /\ terminals = [i \in JobIds |-> {}]
    /\ run = NoRun
    /\ other = EmptyDict
    /\ probe \in { [code |-> c, fixed |-> <<>>, again |-> <<>>] : c \in Scripts }
    /\ switches = 0

\* Line 146: fixed_code = self.validate_and_fix_code(manim_code).
Validate ==
    /\ pc = "validate"
    /\ probe' = [probe EXCEPT !.fixed = validate_and_fix_code(probe.code)]
    /\ pc' = "validated"
    /\ UNCHANGED <<queue, store, fsVars, job_data, localVars, clock, faults, input,
                   dispatched, terminals, run, other, switches>>

\* validate_and_fix_code applied to its own result.
Revalidate ==
    /\ pc = "validated"
    /\ probe' = [probe EXCEPT !.again = validate_and_fix_code(probe.fixed)]
    /\ pc' = "revalidated"
    /\ UNCHANGED <<queue, store, fsVars, job_data, localVars, clock, faults, input,
                   dispatched, terminals, run, other, switches>>

NextValidate == Validate \/ Revalidate

SpecValidate == InitValidate /\ [][NextValidate]_vars

\* The places in a script where a class named exactly GeneratedScene is
\* declared: 'class GeneratedScene' at the start of a line, the name ending
\* there.
Declarations(code) ==
    {k \in Occurrences(code, ClassGeneratedScene) :
        /\ k = 1 \/ code[k - 1] \in Whitespace
        /\ k + 4 > Len(code) \/ code[k + 4] \in {LP, COLON, SP, NL}}
\* The class lines of a script that name no base class.
NoBaseLines(code) ==
    LET lines == Split(code, <<NL>>)
    IN  {i \in 1..Len(lines) :
            /\ StartsWith(Strip(lines[i]), <<CLASS, SP>>)
            /\ ~Contains(lines[i], <<LP>>)}
Validated == pc \in {"validated", "revalidated"}

\* C12: validate_and_fix_code applied to its own result gives that result
\* again, for every input, also when the first pass appended the default
\* class or returned the template.
C12_Idempotent ==
    pc = "revalidated" => probe.again = probe.fixed

\* C13: for every script that declares no class named exactly
\* GeneratedScene, the result declares exactly one.
C13_OneGeneratedScene ==
    (Validated /\ probe.code # NotText /\ Declarations(probe.code) = {}) =>
        Cardinality(Declarations(probe.fixed)) = 1

\* C18: for every script with a class line that names no base class (such as
\* class GeneratedScene:), the result has no such line: the declaration
\* inherits from Scene.
C18_BaseAdded ==
    (Validated /\ probe.code # NotText /\ NoBaseLines(probe.code) # {}) =>
        NoBaseLines(probe.fixed) = {}

\* ------------------------------------------------------------ progress and the final file
\* The progress values of generate_video, in the order of its lines 140, 149,
\* 157, 180, 197 and 214; 0 stands for none.
Milestones == <<10, 25, 40, 60, 80, 100>>
After(p) ==
    IF p = 0 THEN Milestones[1]
    ELSE Milestones[(CHOOSE k \in 1..(Len(Milestones) - 1) : Milestones[k] = p) + 1]
\* A step in which the run passes a progress, and one in which a progress of
\* the run reaches the record.
Passes == run'.called # run.called /\ run'.called # 0
Stores == run'.stored # run.stored /\ run'.stored # 0
StatusOf(p) == IF p = 100 THEN "completed" ELSE "processing"
Spawns == run'.spawned = run.spawned + 1

\* C16 as stated: the progress values that reach the record within one run
\* are 10, 25, 40, 60, 80, 100 in that order with none left out, each below
\* 100 with status processing and 100 with completed; 60 is written before
\* the renderer is started and 80 after it has returned.
C16_ProgressIsPrefix ==
    [][ /\ Stores =>
              /\ run'.stored = After(run.stored)
              /\ store'[run.id].progress = run'.stored
              /\ store'[run.id].status = StatusOf(run'.stored)
        /\ (Stores /\ run'.stored = 60) => run.spawned = 0
        /\ Spawns => run.stored = 60
        /\ (Stores /\ run'.stored = 80) => run.spawned = 1 /\ result # EmptyDict
      ]_vars

\* C16 amended: the progress values the run passes to update_job_status are
\* 10, 25, 40, 60, 80, 100 in that order with none left out; a value reaches
\* the record when its write is not lost, so the values in the record are
\* some of those, in the same order and never decreasing, each below 100 with
\* status processing and 100 with completed; 60 is passed before the renderer
\* is started and 80 after it has returned.
C16_ProgressInOrder ==
    [][ /\ Passes => run'.called = After(run.called)
        /\ Stores =>
              /\ Passes
              /\ run'.stored = run'.called
              /\ run'.stored > run.stored
              /\ store'[run.id].progress = run'.stored
              /\ store'[run.id].status = StatusOf(run'.stored)
        /\ (Passes /\ run'.called = 60) => run.spawned = 0
        /\ Spawns => run.called = 60
        /\ (Passes /\ run'.called = 80) => run.spawned = 1 /\ result # EmptyDict
      ]_vars

\* C16 happens: a run has passed all six values, the write of 25 was lost and
\* the record ends at completed with 100.
C16_Witness ==
    /\ Returned /\ run.called = 100 /\ run.stored = 100 /\ faults = 1
    /\ HasRecord /\ Record.status = "completed" /\ Record.progress = 100
    /\ Record.createdAt = 1 /\ Record.updatedAt = 6

\* C17: every run of generate_video that was dispatched and has returned has
\* left a record whose status is completed or failed.
C17_EndsTerminal ==
    (run.id # None /\ run.ended) =>
        HasRecord /\ Record.status \in Terminal

\* C19: every record in the store has an error only with status failed and a
\* videoPath only with status completed.
C19_FieldsMatchStatus ==
    \A i \in DOMAIN store :
        /\ "error" \in DOMAIN store[i] => store[i].status = "failed"
        /\ "videoPath" \in DOMAIN store[i] => store[i].status = "completed"

\* The runs that must leave the final file alone.
NoPublish == {"timeout", "nonzero", "noartifact", "noscript"}

\* C20: the file at /app/videos/<id>.mp4 changes only in the copy of lines
\* 199-207, when the renderer has returned 0 and a file was found in the
\* scratch directory, which is still there; only the file of the run's own id
\* changes; and a run that ends in a timeout, a non-zero exit, no artifact or
\* no script changes no file under /app/videos, before or after its outcome.
C20_PublishOnlyAfterSuccess ==
    [][ /\ videos' # videos =>
              /\ pc = "discover"
              /\ run.spawned = 1 /\ result.returncode = 0
              /\ TempMediaDir(job_id) \in DOMAIN mediaDirs
              /\ mediaDirs[TempMediaDir(job_id)] # {}
              /\ mediaDirs' = mediaDirs
              /\ run'.outcome \notin NoPublish
              /\ \A f \in (DOMAIN videos) \ {OutputPath(job_id)} :
                    f \in DOMAIN videos' /\ videos'[f] = videos[f]
              /\ DOMAIN videos' = (DOMAIN videos) \cup {OutputPath(job_id)}
        /\ run.outcome \in NoPublish =>
              /\ videos' = videos
              /\ run'.outcome = run.outcome \/ pc = "parse"
      ]_vars

\* C20 happens: a job was published, and a later run for the same id ended
\* in a timeout and left the published file as it was.
C20_Witness ==
    /\ Returned /\ run.outcome = "timeout" /\ run.spawned = 1
    /\ Len(dispatched) = 2
    /\ OutputPath(run.id) \in DOMAIN videos /\ videos[OutputPath(run.id)] = 1
    /\ DirGone

\* ------------------------------------------------------------ one call of update_job_status
\* The records the store may hold for job "a" when update_job_status is
\* called: written by the producer or by earlier calls, with any of the
\* optional fields and a field of the producer's own (prompt).
OptionalFields ==
    [progress |-> 40, error |-> FailedMsg(NoCode), videoPath |-> VideoPath("a"),
     prompt |-> "p"]
StoredRecords ==
    { [k \in {"jobId", "status", "createdAt", "updatedAt"} \cup opt |->
          IF k = "jobId" THEN "a"
          ELSE IF k = "status" THEN st
          ELSE IF k \in {"createdAt", "updatedAt"} THEN 0
          ELSE OptionalFields[k]] :
        st \in {"queued", "processing", "completed", "failed"},
        opt \in SUBSET (DOMAIN OptionalFields) }
\* The optional arguments of a call: any of progress, error and video_path
\* (an argument left at None is not in the domain).
GivenArgs ==
    LET args == [progress |-> 60, error |-> TimeoutMsg, videoPath |-> VideoPath("b")]
    IN  { [k \in ks |-> args[k]] : ks \in SUBSET (DOMAIN args) }

InitUpdate ==
    /\ queue = <<>>
    /\ store \in {EmptyDict} \cup { Put(EmptyDict, "a", rec) : rec \in StoredRecords }
    /\ scripts = {}
    /\ mediaDirs = EmptyDict
    /\ videos = EmptyDict
    /\ pc = "update_job_status"
    /\ job_data = NoPayload
    /\ NoLocals
    /\ clock = 0
    /\ faults = 0
    /\ input = queue
    /\ dispatched = <<>>
    /\ terminals = [i \in JobIds |-> {}]
    /\ run = NoRun
    /\ other = EmptyDict
    /\ probe = EmptyDict
    /\ switches = 0

\* One call of update_job_status (lines 31-60) with any arguments; probe keeps
\* the arguments, the store as it was and the time of the call.
UpdateCall ==
    /\ pc = "update_job_status"
    /\ \E id \in JobIds, status \in {"processing", "completed", "failed"},
          given \in GivenArgs :
          /\ update_job_status(id, status, given, run)
          /\ probe' = [id |-> id, status |-> status, given |-> given,
                       before |-> store, now |-> clock']
    /\ pc' = "returned"
    /\ UNCHANGED <<queue, fsVars, job_data, localVars, input, dispatched, other,
                   switches>>

SpecUpdate == InitUpdate /\ [][UpdateCall]_vars

\* C14: a call of update_job_status that reaches the store overwrites status
\* and updatedAt, sets those of progress, error and videoPath that were
\* passed, and leaves every other field of the record (createdAt, the
\* optional fields not passed, the producer's fields) and every other record
\* as it was; without a stored record it starts one with createdAt set; a call
\* whose Redis read or write fails returns normally and changes nothing.
C14_UpdateFrame ==
    pc = "returned" =>
        LET id == probe.id
            old == probe.before
            overwritten == {"status", "updatedAt"} \cup DOMAIN probe.given
        IN  IF faults > 0
            THEN store = old
            ELSE /\ DOMAIN store = (DOMAIN old) \cup {id}
                 /\ \A j \in (DOMAIN old) \ {id} : store[j] = old[j]
                 /\ store[id].status = probe.status
                 /\ store[id].updatedAt = probe.now
                 /\ \A k \in DOMAIN probe.given : store[id][k] = probe.given[k]
                 /\ IF id \in DOMAIN old
                    THEN /\ DOMAIN store[id] = (DOMAIN old[id]) \cup overwritten
                         /\ \A k \in (DOMAIN old[id]) \ overwritten :
                               store[id][k] = old[id][k]
                    ELSE /\ DOMAIN store[id] = {"jobId", "createdAt"} \cup overwritten
                         /\ store[id].jobId = id
                         /\ store[id].createdAt = probe.now

\* C14 happens: a failed status with an error was written over a record that
\* had a progress, a videoPath and a producer's field, which are all kept, as
\* is createdAt; and a call found no record and began one.
C14_Witness ==
    /\ pc = "returned" /\ faults = 0
    /\ probe.id \in DOMAIN probe.before
    /\ DOMAIN probe.given = {"error"}
    /\ {"progress", "videoPath", "prompt"} \subseteq DOMAIN probe.before[probe.id]
    /\ store[probe.id].progress = 40
    /\ store[probe.id].createdAt = 0
    /\ store[probe.id].updatedAt = 1
    /\ store[probe.id].status # probe.before[probe.id].status

\* ------------------------------------------------------------ two workers: properties
\* Both workers are inside generate_video, for jobs with distinct ids.
DistinctJobs ==
    job_id # None /\ other.job_id # None /\ job_id # other.job_id
\* The finally block of the worker that has the processor.
CleanupStep == pc = "finally" /\ pc' = "blpop"

Count(s, e) == Cardinality({k \in 1..Len(s) : s[k] = e})
\* The entries a worker has popped and not yet parsed.
InHand(w) == IF w.pc = "parse" THEN <<w.job_data>> ELSE <<>>
UniqueIds == \A k, l \in 1..Len(input) : input[k].id = input[l].id => k = l

\* C15: with two workers on one queue every popped entry goes to exactly one
\* worker (each entry is dispatched as often as it was popped, less those
\* still in a worker's hand), and when the ids in the queue are unique the
\* two workers are never inside generate_video for the same id, so never
\* update the same record in turns.
C15_EachEntryToOneWorker ==
    /\ \A e \in SceneEntries :
          Count(Popped, e) = Count(dispatched, e) + Count(InHand(Worker), e)
                                                  + Count(InHand(other), e)
    /\ UniqueIds =>
          ~(/\ pc \notin {"blpop", "parse", "sleep", "stopped"}
            /\ other.pc \notin {"blpop", "parse", "sleep", "stopped"}
            /\ run.id = other.run.id)

\* C15 happens: two entries with distinct ids were popped, one by each worker,
\* and both workers are inside generate_video.
C15_Witness ==
    /\ UniqueIds /\ Len(input) = 2 /\ queue = <<>>
    /\ job_id # None /\ other.job_id # None
    /\ Len(dispatched) = 2
====
